---- MODULE Spec2Model ----
(***************************************************************************)
(* The phone sign-up flow of src/app/dashboard/page.tsx (SignUpPage):      *)
(* the component state, the verification widget kept on the window global, *)
(* the requests in flight and the handlers that start and settle them.     *)
(***************************************************************************)
EXTENDS Integers, Sequences, FiniteSets, TLC

\* ---------------------------------------------------------------- bounds
MaxLen == 2        \* longest text typed into an input
MaxSends == 2      \* phone submits accepted in one behaviour
MaxVerifies == 2   \* code submits that reach the provider
MaxPosts == 2      \* profile POSTs issued
MaxNotices == 2    \* session-change notifications awaiting delivery
MaxSignOuts == 2   \* clicks on 'Sign Out'

\* ------------------------------------------------------------ vocabulary
Digits == {"0", "1", "2", "3", "4", "5", "6", "7", "8", "9"}
Chars == {"9", "+", "a"}       \* the keys typed: a digit, the plus, a letter
Typed == UNION {[1..n -> Chars] : n \in 0..MaxLen}

Steps == {"phone", "code", "profile"}
Null == "null"
NoHandle == 0
NoVerifier == 0
Tokens == {"tokA", "tokB"}
ProviderMsgs == {"", "auth/invalid-phone-number"}
NetMsgs == {"", "Failed to fetch"}
Details == {"Name is required"}
Forms == {[name |-> "Jane", email |-> "", address |-> "1 Elm St",
           vehicle |-> "", kids |-> ""]}

VerifyError == "Invalid verification code. Please try again."
NoTokenError == "No authentication token found. Please complete phone verification."
SaveFallback == "Failed to save profile"
SaveRetryFallback == "Failed to save profile. Please try again."
DashboardRoute == "/dashboard"
SignInRoute == "/signin"
LandingRoute == "/"
NoUser == "null"
Users == {"userWithEmail", "userNoEmail"}
SignOutError == "Failed to sign out"
SignUpRoute == "/signup"

VARIABLES
  phone,             \* useState("")            digits typed so far
  code,              \* useState("")
  confirmation,      \* useState(null)          handle of the pending challenge
  step,              \* useState("phone")
  idToken,           \* useState(null)
  loading,           \* useState(false)         the busy flag
  error,             \* useState(null)
  mounted,           \* the view is mounted
  invalidShown,      \* the browser reported the required phone input as missing
  recaptchaVerifier, \* window.recaptchaVerifier
  alive,             \* widget instances created and not cleared
  sends,             \* widgets created = challenges requested
  handles,           \* challenges issued by the provider
  verifies,          \* confirm calls made
  posts,             \* POST /submit-profile calls made
  inflight,          \* asynchronous operations awaiting their result
  route,             \* where the router was last pushed
  \* ---- Dashboard and the identity provider's session
  dUser,             \* auth.currentUser
  dNotices,          \* session-change notifications not yet delivered
  dProfile,          \* useState(null)   userProfile, <<>> when null
  dLoading,          \* useState(true)
  dError,            \* useState(null)
  dRoute,            \* where the Dashboard's router was last pushed
  dMounted,          \* the Dashboard is mounted (and subscribed)
  soRequested,       \* signOut calls the provider has not acted on yet
  soEnded,           \* signOut calls that ended the session, promise pending
  soDone,            \* signOut calls whose promise resolved
  signOuts           \* clicks on 'Sign Out'

suVars == <<phone, code, confirmation, step, idToken, loading, error, mounted,
            invalidShown, recaptchaVerifier, alive, sends, handles, verifies,
            posts, inflight, route>>

dashVars == <<dUser, dNotices, dProfile, dLoading, dError, dRoute, dMounted,
              soRequested, soEnded, soDone, signOuts>>

vars == <<suVars, dashVars>>

\* ------------------------------------------------------- pure functions
\* e.target.value.replace(/\D/g, '')
StripNonDigits(s) == SelectSeq(s, LAMBDA c : c \in Digits)

StartsWithPlus(s) == Len(s) > 0 /\ s[1] = "+"

\* a normalisation that applies the prefix displayed on the code step
FormatPhone_Prefix91(p) == IF StartsWithPlus(p) THEN p ELSE <<"+", "9", "1">> \o p

\* phone.startsWith('+') ? phone : `+1${phone}`
FormatPhone(p) == IF StartsWithPlus(p) THEN p ELSE <<"+", "1">> \o p

\* an error path that displays err.message alone
SendCodeError_Raw(m) == m

\* `Failed to send verification code: ${err.message || 'Unknown error'}`
SendCodeError(m) ==
  "Failed to send verification code: " \o (IF m = "" THEN "Unknown error" ELSE m)

\* an error path that ignores the server's detail
ResponseError_IgnoreDetail(d) == SaveFallback

\* new Error(data.detail || 'Failed to save profile')
ResponseError(d) == IF d = Null \/ d = "" THEN SaveFallback ELSE d

\* err.message || "Failed to save profile. Please try again."
ProfileError(m) == IF m = "" THEN SaveRetryFallback ELSE m

Op(kind, n, phase, ph, v, h, c, t) ==
  [kind |-> kind, n |-> n, phase |-> phase, phone |-> ph, verifier |-> v,
   handle |-> h, code |-> c, token |-> t]

\* ------------------------------------------------------------- initial
\* the Dashboard before it is rendered: its initial state, no subscription
DashUnmounted ==
  /\ dUser = NoUser
  /\ dNotices = <<>>
  /\ dProfile = <<>>
  /\ dLoading = TRUE
  /\ dError = Null
  /\ dRoute = DashboardRoute
  /\ dMounted = FALSE
  /\ soRequested = 0
  /\ soEnded = 0
  /\ soDone = 0
  /\ signOuts = 0

Init ==
  /\ phone = <<>>
  /\ code = <<>>
  /\ confirmation = NoHandle
  /\ step = "phone"
  /\ idToken = Null
  /\ loading = FALSE
  /\ error = Null
  /\ mounted = TRUE
  /\ invalidShown = FALSE
  /\ recaptchaVerifier = NoVerifier
  /\ alive = {}
  /\ sends = 0
  /\ handles = 0
  /\ verifies = 0
  /\ posts = 0
  /\ inflight = {}
  /\ route = SignUpRoute
  /\ DashUnmounted

\* --------------------------------------------------------- user typing
\* onChange of the phone input (rendered in step "phone")
SetPhone(raw) ==
  /\ mounted
  /\ step = "phone"
  /\ phone' = StripNonDigits(raw)
  /\ invalidShown' = FALSE
  /\ UNCHANGED <<code, confirmation, step, idToken, loading, error, mounted,
                 recaptchaVerifier, alive, sends, handles, verifies, posts,
                 inflight, route>>
  /\ UNCHANGED dashVars

\* onChange of the code input (rendered in step "code")
SetCode(raw) ==
  /\ mounted
  /\ step = "code"
  /\ code' = StripNonDigits(raw)
  /\ UNCHANGED <<phone, confirmation, step, idToken, loading, error, mounted,
                 invalidShown, recaptchaVerifier, alive, sends, handles,
                 verifies, posts, inflight, route>>
  /\ UNCHANGED dashVars

\* --------------------------------------------------------- the widget
\* setupRecaptcha: clear the verifier the window still refers to, create a
\* new one and store it on the window.
SetupRecaptcha(w) ==
  /\ alive' = (alive \ {recaptchaVerifier}) \cup {w}
  /\ recaptchaVerifier' = w

\* 'expired-callback' / 'error-callback' of a live widget
WidgetCallback(w, kind) ==
  /\ w \in alive
  /\ kind \in {"expired", "error"}
  /\ recaptchaVerifier' = NoVerifier
  /\ UNCHANGED <<phone, code, confirmation, step, idToken, loading, error,
                 mounted, invalidShown, alive, sends, handles, verifies,
                 posts, inflight, route>>
  /\ UNCHANGED dashVars

\* cleanup of the mount effect
UnmountCleanup ==
  alive' = IF recaptchaVerifier # NoVerifier
             THEN alive \ {recaptchaVerifier}
             ELSE alive

Unmount ==
  /\ mounted
  /\ mounted' = FALSE
  /\ UnmountCleanup
  /\ UNCHANGED <<phone, code, confirmation, step, idToken, loading, error,
                 invalidShown, recaptchaVerifier, sends, handles, verifies,
                 posts, inflight, route>>
  /\ UNCHANGED dashVars

\* ------------------------------------------------------- phone -> code
\* a submit control that is never disabled
SubmitEnabled_Always == TRUE

\* disabled={loading} on the submit buttons: a disabled default button
\* blocks the form's submission.
SubmitEnabled == ~loading

\* a phone input without `required`
PhoneValid_NoRequired == TRUE

\* `required` on the phone input: the browser refuses to submit the form
\* while the value is missing.
PhoneValid == phone # <<>>

\* `required` on the code input
CodeValid == code # <<>>

\* sendCode up to its await
SendCode ==
  /\ sends < MaxSends
  /\ loading' = TRUE
  /\ error' = Null
  /\ SetupRecaptcha(sends + 1)
  /\ sends' = sends + 1
  /\ inflight' = inflight \cup
       {Op("sendCode", sends + 1, "signIn", FormatPhone(phone), sends + 1,
           NoHandle, <<>>, Null)}
  /\ invalidShown' = FALSE
  /\ UNCHANGED <<phone, code, confirmation, step, idToken, mounted, handles,
                 verifies, posts, route>>

\* the submit event of the phone form
SubmitPhoneForm ==
  /\ mounted
  /\ step = "phone"
  /\ UNCHANGED dashVars
  /\ SubmitEnabled
  /\ IF PhoneValid
       THEN SendCode
       ELSE /\ invalidShown' = TRUE
            /\ UNCHANGED <<phone, code, confirmation, step, idToken, loading,
                           error, mounted, recaptchaVerifier, alive, sends,
                           handles, verifies, posts, inflight, route>>

\* a success path that keeps a handle it already holds
SendCodeSuccess_KeepOld(h) ==
  /\ confirmation' = IF confirmation # NoHandle THEN confirmation ELSE h
  /\ step' = "code"

\* a success path that advances without storing the handle
SendCodeSuccess_NoHandle(h) ==
  /\ confirmation' = confirmation
  /\ step' = "code"

\* setConfirmation(result); setStep("code")
SendCodeSuccess(h) ==
  /\ confirmation' = h
  /\ step' = "code"

\* signInWithPhoneNumber settles: ok is TRUE when a challenge was issued
SignInSettle(op, ok, m) ==
  /\ op \in inflight
  /\ op.kind = "sendCode"
  /\ inflight' = inflight \ {op}
  /\ handles' = IF ok THEN handles + 1 ELSE handles
  /\ IF mounted
       THEN /\ IF ok
                 THEN SendCodeSuccess(handles + 1) /\ error' = error
                 ELSE /\ error' = SendCodeError(m)
                      /\ UNCHANGED <<confirmation, step>>
            /\ loading' = FALSE
            /\ invalidShown' = IF ok THEN FALSE ELSE invalidShown
       ELSE UNCHANGED <<confirmation, step, error, loading, invalidShown>>
  /\ UNCHANGED <<phone, code, idToken, mounted, recaptchaVerifier, alive,
                 sends, verifies, posts, route>>
  /\ UNCHANGED dashVars

\* a 'Change number' that also drops the pending handle
ChangeNumber_Discards ==
  /\ mounted
  /\ step = "code"
  /\ step' = "phone"
  /\ confirmation' = NoHandle
  /\ UNCHANGED <<phone, code, idToken, loading, error, mounted,
                 invalidShown, recaptchaVerifier, alive, sends, handles,
                 verifies, posts, inflight, route>>
  /\ UNCHANGED dashVars

\* the 'Change number' button of the code step
ChangeNumber ==
  /\ mounted
  /\ step = "code"
  /\ step' = "phone"
  /\ UNCHANGED <<phone, code, confirmation, idToken, loading, error, mounted,
                 invalidShown, recaptchaVerifier, alive, sends, handles,
                 verifies, posts, inflight, route>>
  /\ UNCHANGED dashVars

\* ----------------------------------------------------- code -> profile
\* a verifyCode without `if (!confirmation) return`
VerifyCode_NoGuard ==
  /\ verifies < MaxVerifies
  /\ loading' = TRUE
  /\ error' = Null
  /\ verifies' = verifies + 1
  /\ inflight' = inflight \cup
       {Op("verifyCode", verifies + 1, "confirm", <<>>, NoVerifier,
           confirmation, code, Null)}
  /\ UNCHANGED <<phone, code, confirmation, step, idToken, mounted,
                 invalidShown, recaptchaVerifier, alive, sends,
                 handles, posts, route>>
  /\ UNCHANGED dashVars

\* verifyCode up to its first await
VerifyCode ==
  IF confirmation = NoHandle
    THEN UNCHANGED vars
    ELSE /\ verifies < MaxVerifies
         /\ loading' = TRUE
         /\ error' = Null
         /\ verifies' = verifies + 1
         /\ inflight' = inflight \cup
              {Op("verifyCode", verifies + 1, "confirm", <<>>, NoVerifier,
                  confirmation, code, Null)}
         /\ UNCHANGED <<phone, code, confirmation, step, idToken, mounted,
                        invalidShown, recaptchaVerifier, alive, sends,
                        handles, posts, route>>

\* the submit event of the code form
SubmitCodeForm ==
  /\ mounted
  /\ step = "code"
  /\ SubmitEnabled
  /\ CodeValid
  /\ VerifyCode
  /\ UNCHANGED dashVars

\* a failure path without the finally block
VerifyFailure_NoFinally ==
  /\ IF mounted
       THEN error' = VerifyError /\ loading' = loading
       ELSE UNCHANGED <<error, loading>>
  /\ UNCHANGED <<confirmation, step, idToken, invalidShown>>

\* catch / finally of verifyCode
VerifyFailure ==
  /\ IF mounted
       THEN error' = VerifyError /\ loading' = FALSE
       ELSE UNCHANGED <<error, loading>>
  /\ UNCHANGED <<confirmation, step, idToken, invalidShown>>

\* confirmation.confirm(code) settles
ConfirmSettle(op, ok) ==
  /\ op \in inflight
  /\ op.kind = "verifyCode"
  /\ op.phase = "confirm"
  /\ IF ok
       THEN /\ inflight' = (inflight \ {op}) \cup
                 {[op EXCEPT !.phase = "getIdToken"]}
            /\ UNCHANGED <<confirmation, step, idToken, error, loading,
                           invalidShown>>
       ELSE /\ inflight' = inflight \ {op}
            /\ VerifyFailure
  /\ UNCHANGED <<phone, code, mounted, recaptchaVerifier, alive, sends,
                 handles, verifies, posts, route>>
  /\ UNCHANGED dashVars

\* a success path that advances without storing the token
VerifySuccess_NoToken(t) ==
  /\ idToken' = idToken
  /\ step' = "profile"

\* setIdToken(token); setStep("profile")
VerifySuccess(t) ==
  /\ idToken' = t
  /\ step' = "profile"

\* result.user.getIdToken() settles
TokenSettle(op, ok, t) ==
  /\ op \in inflight
  /\ op.kind = "verifyCode"
  /\ op.phase = "getIdToken"
  /\ inflight' = inflight \ {op}
  /\ IF ok
       THEN /\ IF mounted
                 THEN /\ VerifySuccess(t)
                      /\ loading' = FALSE
                      /\ invalidShown' = FALSE
                 ELSE UNCHANGED <<idToken, step, loading, invalidShown>>
            /\ UNCHANGED <<confirmation, error>>
       ELSE VerifyFailure
  /\ UNCHANGED <<phone, code, mounted, recaptchaVerifier, alive, sends,
                 handles, verifies, posts, route>>
  /\ UNCHANGED dashVars

\* ------------------------------------------------------ profile submit
\* a submit handler without the token check
HasToken_Always == TRUE

\* if (!idToken) throw ...
HasToken == idToken # Null /\ idToken # ""

\* handleProfileSubmit up to its await
HandleProfileSubmit(f) ==
  IF HasToken
    THEN /\ posts < MaxPosts
         /\ loading' = TRUE
         /\ error' = Null
         /\ posts' = posts + 1
         /\ inflight' = inflight \cup
              {Op("profile", posts + 1, "fetch", <<>>, NoVerifier, NoHandle,
                  <<>>, idToken)}
         /\ UNCHANGED <<phone, code, confirmation, step, idToken, mounted,
                        invalidShown, recaptchaVerifier, alive, sends,
                        handles, verifies, route>>
    ELSE /\ error' = ProfileError(NoTokenError)
         /\ loading' = FALSE
         /\ UNCHANGED <<phone, code, confirmation, step, idToken, mounted,
                        invalidShown, recaptchaVerifier, alive, sends,
                        handles, verifies, posts, inflight, route>>

\* the submit event of ProfileForm (name and address are required)
SubmitProfileForm(f) ==
  /\ mounted
  /\ step = "profile"
  /\ SubmitEnabled
  /\ f.name # "" /\ f.address # ""
  /\ HandleProfileSubmit(f)
  /\ UNCHANGED dashVars

\* fetch and response.json() settle.  outcome: "reject" (fetch threw with
\* message d), "ok" (response.ok), "notok" (body detail d, Null if absent)
FetchSettle(op, outcome, d) ==
  /\ op \in inflight
  /\ op.kind = "profile"
  /\ inflight' = inflight \ {op}
  /\ route' = IF outcome = "ok" THEN DashboardRoute ELSE route
  /\ IF mounted
       THEN /\ error' = CASE outcome = "ok" -> error
                          [] outcome = "reject" -> ProfileError(d)
                          [] OTHER -> ProfileError(ResponseError(d))
            /\ loading' = FALSE
       ELSE UNCHANGED <<error, loading>>
  /\ UNCHANGED <<phone, code, confirmation, step, idToken, mounted,
                 invalidShown, recaptchaVerifier, alive, sends, handles,
                 verifies, posts>>
  /\ UNCHANGED dashVars

\* ------------------------------------------------------- specification
Next ==
  \/ \E raw \in Typed : SetPhone(raw)
  \/ \E raw \in Typed : SetCode(raw)
  \/ SubmitPhoneForm
  \/ \E op \in inflight, ok \in BOOLEAN, m \in ProviderMsgs : SignInSettle(op, ok, m)
  \/ ChangeNumber
  \/ SubmitCodeForm
  \/ \E op \in inflight, ok \in BOOLEAN : ConfirmSettle(op, ok)
  \/ \E op \in inflight, ok \in BOOLEAN, t \in Tokens : TokenSettle(op, ok, t)
  \/ \E f \in Forms : SubmitProfileForm(f)
  \/ \E op \in inflight : FetchSettle(op, "ok", Null)
  \/ \E op \in inflight, m \in NetMsgs : FetchSettle(op, "reject", m)
  \/ \E op \in inflight, d \in Details \cup {Null} : FetchSettle(op, "notok", d)
  \/ \E w \in alive, kind \in {"expired", "error"} : WidgetCallback(w, kind)
  \/ Unmount

Spec == Init /\ [][Next]_vars

\* some request in flight settles
Settle ==
  \E op \in inflight :
    \/ \E ok \in BOOLEAN, m \in ProviderMsgs : SignInSettle(op, ok, m)
    \/ \E ok \in BOOLEAN : ConfirmSettle(op, ok)
    \/ \E ok \in BOOLEAN, t \in Tokens : TokenSettle(op, ok, t)
    \/ FetchSettle(op, "ok", Null)
    \/ \E m \in NetMsgs : FetchSettle(op, "reject", m)
    \/ \E d \in Details \cup {Null} : FetchSettle(op, "notok", d)

\* every request eventually settles
SpecFair == Init /\ [][Next]_vars /\ WF_vars(Settle)

\* The handlers driven from every step, with or without a session token:
\* the state a harness rendering the component may put it in.
InitAny ==
  /\ phone = <<>>
  /\ code = <<>>
  /\ confirmation = NoHandle
  /\ step \in Steps
  /\ idToken \in {Null} \cup Tokens
  /\ loading = FALSE
  /\ error = Null
  /\ mounted = TRUE
  /\ invalidShown = FALSE
  /\ recaptchaVerifier = NoVerifier
  /\ alive = {}
  /\ sends = 0
  /\ handles = 0
  /\ verifies = 0
  /\ posts = 0
  /\ inflight = {}
  /\ route = SignUpRoute
  /\ DashUnmounted

SpecAny == InitAny /\ [][Next]_vars

\* ------------------------------------------------------------ Dashboard
\* the mock profile set for a signed-in user (email: user.email || '')
MockProfile(u) ==
  [name |-> "John Doe",
   email |-> IF u = "userWithEmail" THEN "jane@example.com" ELSE "",
   address |-> "123 Main St", vehicle |-> "Toyota Camry", kids |-> "2"]

\* a callback without the `if (!user)` branch
AuthCallback_NoGuard(u) ==
  /\ dProfile' = <<MockProfile(u)>>
  /\ dLoading' = FALSE
  /\ UNCHANGED <<dError, dRoute>>

\* the callback passed to onAuthStateChanged
AuthCallback(u) ==
  IF u = NoUser
    THEN /\ dRoute' = SignInRoute
         /\ UNCHANGED <<dProfile, dLoading, dError>>
    ELSE /\ dProfile' = <<MockProfile(u)>>
         /\ dLoading' = FALSE
         /\ UNCHANGED <<dError, dRoute>>

\* the provider delivers the oldest pending notification to the subscriber
DashNotify ==
  /\ dMounted
  /\ dNotices # <<>>
  /\ AuthCallback(Head(dNotices))
  /\ dNotices' = Tail(dNotices)
  /\ UNCHANGED <<dUser, dMounted, soRequested, soEnded, soDone, signOuts>>
  /\ UNCHANGED suVars

\* the session changes outside the Dashboard (another tab, a revoked token)
SessionChange(u) ==
  /\ u # dUser
  /\ Len(dNotices) < MaxNotices
  /\ dUser' = u
  /\ dNotices' = IF dMounted THEN Append(dNotices, u) ELSE dNotices
  /\ UNCHANGED <<dProfile, dLoading, dError, dRoute, dMounted, soRequested,
                 soEnded, soDone, signOuts>>
  /\ UNCHANGED suVars

\* handleSignOut up to its await; the button is rendered once the profile
\* view is shown (neither loading nor error)
SignOutClick ==
  /\ dMounted
  /\ ~dLoading
  /\ dError = Null
  /\ signOuts < MaxSignOuts
  /\ signOuts' = signOuts + 1
  /\ soRequested' = soRequested + 1
  /\ UNCHANGED <<dUser, dNotices, dProfile, dLoading, dError, dRoute,
                 dMounted, soEnded, soDone>>
  /\ UNCHANGED suVars

\* signOut(auth) ends the session; subscribers are notified of the change
SignOutEffect ==
  /\ soRequested > 0
  /\ Len(dNotices) < MaxNotices
  /\ dUser' = NoUser
  /\ dNotices' = IF dMounted /\ dUser # NoUser
                   THEN Append(dNotices, NoUser)
                   ELSE dNotices
  /\ soRequested' = soRequested - 1
  /\ soEnded' = soEnded + 1
  /\ UNCHANGED <<dProfile, dLoading, dError, dRoute, dMounted, soDone,
                 signOuts>>
  /\ UNCHANGED suVars

\* signOut(auth) rejects: the catch of handleSignOut
SignOutReject ==
  /\ soRequested > 0
  /\ soRequested' = soRequested - 1
  /\ dError' = IF dMounted THEN SignOutError ELSE dError
  /\ UNCHANGED <<dUser, dNotices, dProfile, dLoading, dRoute, dMounted,
                 soEnded, soDone, signOuts>>
  /\ UNCHANGED suVars

\* the await of signOut(auth) returns: router.push('/')
SignOutResolve ==
  /\ soEnded > 0
  /\ soEnded' = soEnded - 1
  /\ soDone' = soDone + 1
  /\ dRoute' = LandingRoute
  /\ UNCHANGED <<dUser, dNotices, dProfile, dLoading, dError, dMounted,
                 soRequested, signOuts>>
  /\ UNCHANGED suVars

\* cleanup of the Dashboard's effect: unsubscribe()
DashUnmount ==
  /\ dMounted
  /\ dMounted' = FALSE
  /\ dNotices' = <<>>
  /\ UNCHANGED <<dUser, dProfile, dLoading, dError, dRoute, soRequested,
                 soEnded, soDone, signOuts>>
  /\ UNCHANGED suVars

\* the Dashboard is mounted and has subscribed: the provider owes it the
\* notification of the current session
InitDash ==
  /\ phone = <<>>
  /\ code = <<>>
  /\ confirmation = NoHandle
  /\ step = "phone"
  /\ idToken = Null
  /\ loading = FALSE
  /\ error = Null
  /\ mounted = FALSE
  /\ invalidShown = FALSE
  /\ recaptchaVerifier = NoVerifier
  /\ alive = {}
  /\ sends = 0
  /\ handles = 0
  /\ verifies = 0
  /\ posts = 0
  /\ inflight = {}
  /\ route = DashboardRoute
  /\ dUser \in {NoUser} \cup Users
  /\ dNotices = <<dUser>>
  /\ dProfile = <<>>
  /\ dLoading = TRUE
  /\ dError = Null
  /\ dRoute = DashboardRoute
  /\ dMounted = TRUE
  /\ soRequested = 0
  /\ soEnded = 0
  /\ soDone = 0
  /\ signOuts = 0

NextDash ==
  \/ DashNotify
  \/ \E u \in {NoUser} \cup Users : SessionChange(u)
  \/ SignOutClick
  \/ SignOutEffect
  \/ SignOutReject
  \/ SignOutResolve
  \/ DashUnmount

SpecDash == InitDash /\ [][NextDash]_vars

\* ------------------------------------------------ end-to-end scenario
\* The user types the scenario's phone number and code (any prefix of them
\* may be in the input on the way), submits each form when it is complete,
\* and every external call succeeds.
ScenarioPhone == <<"9", "8", "7", "6", "5", "4", "3", "2", "1", "0">>
ScenarioCode == <<"1", "2", "3", "4", "5", "6">>

Prefix(s, n) == SubSeq(s, 1, n)

E2ETypePhone == \E n \in 0..Len(ScenarioPhone) : SetPhone(Prefix(ScenarioPhone, n))

E2ETypeCode == \E n \in 0..Len(ScenarioCode) : SetCode(Prefix(ScenarioCode, n))

E2ESubmitPhone == phone = ScenarioPhone /\ SubmitPhoneForm

E2EIssue == \E op \in inflight : SignInSettle(op, TRUE, "")

E2ESubmitCode == code = ScenarioCode /\ SubmitCodeForm

E2EConfirm == \E op \in inflight : ConfirmSettle(op, TRUE)

E2EToken == \E op \in inflight, t \in Tokens : TokenSettle(op, TRUE, t)

E2ESubmitProfile == route = SignUpRoute /\ \E f \in Forms : SubmitProfileForm(f)

E2ESaved == \E op \in inflight : FetchSettle(op, "ok", Null)

E2ELeave == route = DashboardRoute /\ Unmount

NextE2E ==
  \/ E2ETypePhone
  \/ E2ETypeCode
  \/ E2ESubmitPhone
  \/ E2EIssue
  \/ E2ESubmitCode
  \/ E2EConfirm
  \/ E2EToken
  \/ E2ESubmitProfile
  \/ E2ESaved
  \/ E2ELeave

SpecE2E == Init /\ [][NextE2E]_vars

TypeOK ==
  /\ phone \in Seq(Digits) /\ Len(phone) <= MaxLen
  /\ code \in Seq(Digits) /\ Len(code) <= MaxLen
  /\ confirmation \in 0..MaxSends
  /\ step \in Steps
  /\ idToken \in {Null} \cup Tokens
  /\ loading \in BOOLEAN
  /\ mounted \in BOOLEAN
  /\ invalidShown \in BOOLEAN
  /\ recaptchaVerifier \in 0..MaxSends
  /\ alive \subseteq 1..MaxSends
  /\ sends \in 0..MaxSends
  /\ handles \in 0..MaxSends
  /\ verifies \in 0..MaxVerifies
  /\ posts \in 0..MaxPosts
  /\ route \in {SignUpRoute, DashboardRoute}

\* everything of the state but the step
allButStep == <<phone, code, confirmation, idToken, loading, error, mounted,
                invalidShown, recaptchaVerifier, alive, sends, handles,
                verifies, posts, inflight, route, dashVars>>

\* ---------------------------------------------------------------- claims

\* C1: at most one asynchronous operation of the flow (challenge issuance,
\* code confirmation / token retrieval, profile POST) is in flight at any
\* time, submits being accepted only while `loading` is false.
C1_AtMostOneInFlight == Cardinality(inflight) <= 1

\* a code confirmation is in flight while the user is back on the phone form
C1_Witness ==
  /\ step = "phone"
  /\ loading
  /\ \E op \in inflight : op.kind = "verifyCode"

C3_IssuanceStoresHandle ==
  [][(mounted /\ handles' = handles + 1) =>
       (step' = "code" /\ confirmation' = handles + 1)]_vars

\* the second issuance replaced the handle kept across a 'Change number'
C3_Witness ==
  /\ mounted
  /\ step = "code"
  /\ handles >= 2
  /\ confirmation = handles

\* C4: 'Change number' is available whenever the code step is shown, sets
\* the step to `phone`, and changes nothing else: no request is started and
\* no call is counted.
C4_ChangeNumberOnlyStep ==
  /\ []((mounted /\ step = "code") => ENABLED ChangeNumber)
  /\ [][(step = "code" /\ step' # "code" /\ step' # "profile") =>
          (step' = "phone" /\ UNCHANGED allButStep)]_vars

\* back on the phone step with a code confirmation still in flight
C4_Witness ==
  /\ mounted
  /\ step = "phone"
  /\ confirmation # NoHandle
  /\ inflight # {}

\* C5: 'Change number' discards the pending verification handle.
C5_ChangeNumberDiscardsHandle ==
  [][(step = "code" /\ step' = "phone") => confirmation' = NoHandle]_vars

\* C6: handleProfileSubmit without a session token sets the authentication
\* error, issues no POST, leaves the step at `profile` and does not
\* navigate; no POST without a token is ever in flight.
C6_NoTokenNoPost ==
  /\ [](\A op \in inflight : op.kind = "profile" => op.token \in Tokens)
  /\ [][\A f \in Forms :
          (SubmitProfileForm(f) /\ idToken = Null) =>
            (error' = NoTokenError /\ posts' = posts /\ inflight' = inflight
               /\ step' = "profile" /\ route' = route /\ loading' = FALSE)]_vars

\* the profile form was submitted without a token
C6_Witness ==
  /\ step = "profile"
  /\ idToken = Null
  /\ error = NoTokenError
  /\ posts = 0
  /\ ~loading

C8_AtMostOneWidget == Cardinality(alive) <= 1

\* C9: no widget instance stays alive after the view is unmounted.
C9_NoWidgetAfterUnmount == ~mounted => alive = {}

\* C10: exactly one step of {phone, code, profile} is active, and on step
\* `profile` a session token exists.
C10_StepAndToken ==
  /\ Cardinality({s \in Steps : step = s}) = 1
  /\ step = "profile" => idToken \in Tokens

\* the profile step was reached
C10_Witness ==
  /\ step = "profile"
  /\ idToken \in Tokens
  /\ posts = 0

\* C11: in the end-to-end scenario the number sent is "+19876543210", the
\* code confirmed is "123456" against the issued handle, the POST carries
\* the token obtained, the step goes phone, code, profile and then the
\* router is pushed to the dashboard, and each external call is made once.
C11_EndToEnd ==
  /\ [](/\ \A op \in inflight :
             /\ op.kind = "sendCode" =>
                  op.phone = <<"+", "1", "9", "8", "7", "6", "5", "4", "3", "2", "1", "0">>
             /\ op.kind = "verifyCode" =>
                  (op.code = <<"1", "2", "3", "4", "5", "6">> /\ op.handle = 1)
             /\ op.kind = "profile" => (op.token \in Tokens /\ op.token = idToken)
        /\ verifies >= 1 => (sends = 1 /\ handles = 1)
        /\ posts >= 1 => (verifies = 1 /\ step = "profile")
        /\ route = DashboardRoute =>
             (sends = 1 /\ handles = 1 /\ verifies = 1 /\ posts = 1
                /\ inflight = {}))
  /\ [][/\ step' # step =>
            <<step, step'>> \in {<<"phone", "code">>, <<"code", "profile">>}
        /\ route' # route => (step = "profile" /\ route' = DashboardRoute)]_vars

\* the scenario ran to the navigation
C11_Witness ==
  /\ route = DashboardRoute
  /\ step = "profile"
  /\ idToken \in Tokens
  /\ confirmation = 1
  /\ phone = ScenarioPhone
  /\ code = ScenarioCode

\* C12: after a successful sign-out from the Dashboard the session is ended
\* and the landing page is the resulting destination, once the sign-out has
\* completed and the session-change notification has been delivered, in
\* whichever order.
C12_SignOutLandsOnLanding ==
  (/\ soDone >= 1
   /\ soRequested = 0
   /\ soEnded = 0
   /\ dNotices = <<>>
   /\ dUser = NoUser) => dRoute = LandingRoute

\* C13: a session-change notification with no active session redirects the
\* Dashboard to sign-in and leaves the profile view as it was.
C13_NoSessionRedirects ==
  [][(DashNotify /\ Head(dNotices) = NoUser) =>
       (dRoute' = SignInRoute /\ dProfile' = dProfile
          /\ dLoading' = dLoading /\ dError' = dError)]_vars

\* a visit without a session was redirected while the spinner is shown
C13_Witness ==
  /\ dMounted
  /\ dRoute = SignInRoute
  /\ dNotices = <<>>
  /\ dLoading
  /\ dProfile = <<>>

C15_VerifyFailure ==
  [][\A op \in inflight :
       (mounted /\ (ConfirmSettle(op, FALSE)
                      \/ \E t \in Tokens : TokenSettle(op, FALSE, t))) =>
         (/\ step' = "code"
          /\ error' = VerifyError
          /\ code' = code
          /\ confirmation' = confirmation
          /\ idToken' = idToken)]_vars

\* C16: verifyCode with no pending handle changes nothing and calls nobody.
C16_VerifyNoHandleNoOp ==
  [][(SubmitCodeForm /\ confirmation = NoHandle) =>
       (UNCHANGED vars /\ verifies' = verifies /\ inflight' = inflight)]_vars

\* the code form can be submitted while no handle is held
C16_Witness ==
  /\ mounted
  /\ step = "code"
  /\ confirmation = NoHandle
  /\ code # <<>>
  /\ ~loading
  /\ error = Null
  /\ verifies = 0
  /\ inflight = {}

\* C17: the busy flag is true while a request of the mounted flow is in
\* flight, is false as soon as the request has settled, and a flag that is
\* true becomes false again when every request eventually settles.
C17_BusyFlag ==
  /\ []((mounted /\ inflight # {}) => loading)
  /\ []((mounted /\ inflight = {}) => ~loading)
  /\ [][(mounted /\ inflight # {} /\ inflight' = {}) => ~loading']_vars
  /\ (mounted /\ loading) ~> (~loading \/ ~mounted)

\* a failed code confirmation left the form ready for a retry
C17_Witness ==
  /\ mounted
  /\ ~loading
  /\ error = VerifyError
  /\ inflight = {}
  /\ step = "code"
  /\ verifies = 1

\* C18: the number sendCode sends is the entered string unchanged when it
\* starts with "+", and "+1" followed by the entered string otherwise.
C18_SentPhone ==
  [][\A raw \in Typed :
       (SetPhone(raw) /\ phone' # <<>>) =>
         FormatPhone(phone') =
           (IF StartsWithPlus(raw) THEN raw ELSE <<"+", "1">> \o raw)]_vars

\* C19: the step becomes `profile` only from step `code`.
C19_ProfileOnlyFromCode ==
  [][(step' = "profile" /\ step # "profile") => step = "code"]_vars

\* C20: on step `code` a verification handle is held, and a code submit
\* there reaches the identity provider.
C20_CodeStepHasHandle ==
  /\ [](step = "code" => confirmation # NoHandle)
  /\ [][SubmitCodeForm =>
          (verifies' = verifies + 1
             /\ \E op \in inflight' \ inflight :
                  op.kind = "verifyCode" /\ op.handle = confirmation
                    /\ op.handle # NoHandle)]_vars

\* a code submit on the code step is being confirmed with the held handle
C20_Witness ==
  /\ mounted
  /\ step = "code"
  /\ confirmation # NoHandle
  /\ \E op \in inflight : op.kind = "verifyCode" /\ op.handle = confirmation

====
